---- MODULE Spec2Model ----
(***************************************************************************)
(* anno_goats: index of an asset document and the two recursive tree       *)
(* builders of AssetsIndexed (reward_tree, in_rewards_tree).               *)
(*                                                                         *)
(* A document is a sequence of Asset elements.  Text fields are strings,   *)
(* NoText stands for an element that is absent (find/findtext -> None).    *)
(* A tree is an arena: a sequence of RewardPoolItem records in creation    *)
(* (pre-)order; `children` lists arena positions and `parent` is the arena *)
(* position the weak reference points at (0 when parent() is None).        *)
(* Chances are exact rationals <<numerator, denominator>>.                 *)
(***************************************************************************)
EXTENDS Integers, Sequences, FiniteSets, TLC

VARIABLES doc, index, aux, cached_reward_pools, cached_all_reward_items,
          call, result, scans, threads

vars == <<doc, index, aux, cached_reward_pools, cached_all_reward_items,
          call, result, scans, threads>>

\* Bounds of the model: Item elements in a document, Item elements in one
\* pool, and the depth at which the interpreter stops a recursion
\* (RecursionError).
MaxItems == 3
MaxPoolItems == 2
MaxDepth == 4

\* The runs of a generator body are counted up to ScanCap.
ScanCap == 2
\* the callers that run concurrently against one AssetsIndexed
NumThreads == 2
\* the Asset elements of a document given to from_xml
MaxAssets == 3

NoText == "None"
None == <<>>
Some(x) == <<x>>

\* GUIDs a caller may ask for; 4 is carried by no asset of the documents.
QueryGuids == {1, 2, 3, 4}

---------------------------------------------------------------------------
\* Text to number conversions, on decimal integer literals.

Number(t) ==
  CASE t = "-1" -> -1
    [] t = "0" -> 0
    [] t = "1" -> 1
    [] t = "2" -> 2
    [] t = "3" -> 3
    [] t = "4" -> 4

\* Python int(str)
PyInt(t) == Number(t)

\* XPath 1.0 number(string)
XPathNumber(t) == Number(t)

\* Exact rational arithmetic for Python's `/` and `*` on chances.
Rat(n, d) == <<n, d>>
RatMulInt(r, k) == <<r[1] * k, r[2]>>
RatDivInt(r, k) == <<r[1], r[2] * k>>

---------------------------------------------------------------------------
\* Document access.

asset_guid(asset) ==
  IF asset.GUID # NoText THEN Some(PyInt(asset.GUID)) ELSE None

asset_name(asset) == asset.Name

asset_english_text(asset) == asset.English

\* doc.xpath("//Assets/Asset[Values/Item or Values/RewardPool]")
IndexedAssetPositions(d) ==
  { i \in 1..Len(d) : d[i].hasItem \/ d[i].hasRewardPool }

RECURSIVE asset_index_first_wins(_, _, _)
\* variant: an entry once made is kept (index.setdefault(guid, n))
asset_index_first_wins(d, i, idx) ==
  IF i > Len(d) THEN idx
  ELSE LET g == asset_guid(d[i]) IN
    IF i \in IndexedAssetPositions(d) /\ g # None
    THEN asset_index_first_wins(d, i + 1,
           IF g[1] \in DOMAIN idx.node THEN idx
           ELSE [order |-> Append(idx.order, g[1]),
                 node |-> [k \in DOMAIN idx.node \cup {g[1]} |->
                            IF k = g[1] THEN i ELSE idx.node[k]]])
    ELSE asset_index_first_wins(d, i + 1, idx)

RECURSIVE asset_index_from(_, _, _)
asset_index_from(d, i, idx) ==
  IF i > Len(d) THEN idx
  ELSE LET g == asset_guid(d[i]) IN
    IF i \in IndexedAssetPositions(d) /\ g # None
    THEN asset_index_from(d, i + 1,
           [order |-> IF g[1] \in DOMAIN idx.node THEN idx.order
                      ELSE Append(idx.order, g[1]),
            node |-> [k \in DOMAIN idx.node \cup {g[1]} |->
                       IF k = g[1] THEN i ELSE idx.node[k]]])
    ELSE asset_index_from(d, i + 1, idx)

\* index.order is the dict's iteration order, index.node the mapping.
asset_index(d) == asset_index_from(d, 1, [order |-> <<>>, node |-> <<>>])

from_xml_aux(d, idx) == [g \in DOMAIN idx.node |-> asset_name(d[idx.node[g]])]

---------------------------------------------------------------------------
\* RewardPoolItem(guid, name, english, **kwargs); fields not passed keep the
\* dataclass defaults (weight None, children [], parent -> None, chances None).

DefaultKwargs ==
  [weight |-> None, parent |-> 0, chance_from_parent |-> None,
   chance_from_root |-> None]

RewardPoolItem(guid, name, english, kwargs) ==
  [guid |-> guid, name |-> name, english |-> english,
   weight |-> kwargs.weight, children |-> <<>>, parent |-> kwargs.parent,
   chance_from_parent |-> kwargs.chance_from_parent,
   chance_from_root |-> kwargs.chance_from_root]

Raise(kind, guid) == [kind |-> kind, guid |-> guid, tree |-> <<>>]
Return(arena) == [kind |-> "tree", guid |-> 0, tree |-> arena]
NoResult == [kind |-> "none", guid |-> 0, tree |-> <<>>]

\* variant: a declared weight of 0 replaced by the default, int(...) or 1
WeightOfZeroDefaulted(item) ==
  IF item.Weight = NoText \/ item.Weight = "" \/ PyInt(item.Weight) = 0
  THEN 1 ELSE PyInt(item.Weight)

\* int(item.findtext("Weight") or 1)
WeightOf(item) ==
  IF item.Weight = NoText \/ item.Weight = "" THEN 1 ELSE PyInt(item.Weight)

\* variant: the xpath without the [not(Weight=0)] predicate
RewardItemSelectedAnyWeight(item) == item.ItemLink # NoText

\* asset.xpath("Values/RewardPool//Item[ItemLink][not(Weight=0)]")
RewardItemSelected(item) ==
  /\ item.ItemLink # NoText
  /\ ~(item.Weight # NoText /\ XPathNumber(item.Weight) = 0)

RewardItems(asset) ==
  IF asset.hasRewardPool THEN SelectSeq(asset.Items, RewardItemSelected)
  ELSE <<>>

linkweights(asset) ==
  LET sel == RewardItems(asset) IN
  [i \in 1..Len(sel) |-> <<PyInt(sel[i].ItemLink), WeightOf(sel[i])>>]

RECURSIVE SumWeights(_, _)
SumWeights(lw, i) ==
  IF i > Len(lw) THEN 0 ELSE lw[i][2] + SumWeights(lw, i + 1)

\* variant: the pool weight taken as the number of links
pool_weight_count(lw) == Len(lw)

pool_weight(lw) == SumWeights(lw, 1)

\* variant: chance_from_root not multiplied by the parent's chance
ChildKwargsChanceNotCompounded(parent, me, weight, pw) ==
  [weight |-> Some(weight), parent |-> me,
   chance_from_parent |-> Rat(weight, pw),
   chance_from_root |-> Rat(weight, pw)]

\* variant: chance_from_root inherited from the parent without the weight
ChildKwargsRootChanceUnweighted(parent, me, weight, pw) ==
  [weight |-> Some(weight), parent |-> me,
   chance_from_parent |-> Rat(weight, pw),
   chance_from_root |-> parent.chance_from_root]

\* Keyword arguments of the recursive call for the child (link, weight).
ChildKwargs(parent, me, weight, pw) ==
  [weight |-> Some(weight), parent |-> me,
   chance_from_parent |-> Rat(weight, pw),
   chance_from_root |-> RatDivInt(RatMulInt(parent.chance_from_root, weight), pw)]

RECURSIVE reward_pool_tree(_, _, _, _), reward_pool_children(_, _, _, _, _)
reward_pool_tree(guid, kwargs, arena, depth) ==
  IF depth > MaxDepth THEN Raise("RecursionError", guid)
  ELSE IF guid \notin DOMAIN index.node THEN Raise("ValueError", guid)
  ELSE LET asset == doc[index.node[guid]]
           parent == RewardPoolItem(guid, aux[guid],
                                    asset_english_text(asset), kwargs)
       IN reward_pool_children(linkweights(asset), 1, Len(arena) + 1,
                               Append(arena, parent), depth)

reward_pool_children(lw, i, me, arena, depth) ==
  IF i > Len(lw) THEN Return(arena)
  ELSE IF pool_weight(lw) = 0 THEN Raise("ZeroDivisionError", arena[me].guid)
  ELSE LET r == reward_pool_tree(lw[i][1],
                  ChildKwargs(arena[me], me, lw[i][2], pool_weight(lw)),
                  arena, depth + 1)
       IN IF r.kind # "tree" THEN r
          ELSE reward_pool_children(lw, i + 1, me,
                 [r.tree EXCEPT ![me].children = Append(@, Len(arena) + 1)],
                 depth)

reward_tree(guid) ==
  reward_pool_tree(guid, [DefaultKwargs EXCEPT !.chance_from_root = Rat(1, 1)],
                   <<>>, 1)

---------------------------------------------------------------------------
\* cached_generator: the scan runs when the cache attribute is None.

NoCache == [set |-> FALSE, v |-> <<>>]

\* variant: the cache tested for truth (`if not v`) instead of `is None`
cached_generator_truthy(cache, scan) ==
  IF ~cache.set \/ cache.v = <<>>
  THEN [v |-> scan, cache |-> [set |-> TRUE, v |-> scan], ran |-> 1]
  ELSE [v |-> cache.v, cache |-> cache, ran |-> 0]

\* `ran` tells whether the generator body was run (1) or not (0)
cached_generator(cache, scan) ==
  IF ~cache.set
  THEN [v |-> scan, cache |-> [set |-> TRUE, v |-> scan], ran |-> 1]
  ELSE [v |-> cache.v, cache |-> cache, ran |-> 0]

IsRewardPool(pos) == doc[pos].hasRewardPool

\* body of reward_pools: positions of the pool assets, in index order
reward_pools_scan ==
  SelectSeq([i \in 1..Len(index.order) |-> index.node[index.order[i]]],
            IsRewardPool)

\* item.findtext("ItemLink") is truthy, for Values/RewardPool/ItemsPool/Item
PoolItemLinked(item) ==
  item.direct /\ item.ItemLink # NoText /\ item.ItemLink # ""

PoolEdges(pos) ==
  LET sel == SelectSeq(doc[pos].Items, PoolItemLinked) IN
  [i \in 1..Len(sel) |->
     [asset |-> pos, item |-> sel[i], link |-> PyInt(sel[i].ItemLink)]]

RECURSIVE FlattenEdges(_, _)
FlattenEdges(pools, i) ==
  IF i > Len(pools) THEN <<>>
  ELSE PoolEdges(pools[i]) \o FlattenEdges(pools, i + 1)

\* body of all_reward_items over the pools reward_pools() returned
all_reward_items_scan(pools) == FlattenEdges(pools, 1)

\* self.reward_pools(), self.all_reward_items(): value and caches afterwards
reward_pools(rp) == cached_generator(rp, reward_pools_scan)

\* ran_rp, ran_ari: the runs of the two generator bodies in this call; the
\* body of all_reward_items is what calls reward_pools()
all_reward_items(rp, ari) ==
  LET pools == reward_pools(rp)
      got == cached_generator(ari, all_reward_items_scan(pools.v))
  IN IF got.ran = 0
     THEN [v |-> got.v, rp |-> rp, ari |-> got.cache,
           ran_rp |-> 0, ran_ari |-> 0]
     ELSE [v |-> got.v, rp |-> pools.cache, ari |-> got.cache,
           ran_rp |-> pools.ran, ran_ari |-> 1]

\* variant: links with a declared weight of 0 left out, as the forward
\* builder does
in_rewards_nonzero(edges, guid) ==
  LET Hit(e) == e.link = guid /\ e.item.Weight # "0" IN SelectSeq(edges, Hit)

\* in_rewards(guid) over the materialised all_reward_items() list
in_rewards(edges, guid) ==
  LET Hit(e) == e.link = guid IN SelectSeq(edges, Hit)

RECURSIVE in_rewards_node(_, _, _, _, _)
RECURSIVE in_rewards_children(_, _, _, _, _, _)
in_rewards_node(edges, guid, kwargs, arena, depth) ==
  IF depth > MaxDepth THEN Raise("RecursionError", guid)
  ELSE IF guid \notin DOMAIN aux THEN Raise("KeyError", guid)
  ELSE LET parent == RewardPoolItem(guid, aux[guid],
                        asset_english_text(doc[index.node[guid]]), kwargs)
       IN in_rewards_children(edges, in_rewards(edges, guid), 1,
                              Len(arena) + 1, Append(arena, parent), depth)

in_rewards_children(edges, found, i, me, arena, depth) ==
  IF i > Len(found) THEN Return(arena)
  ELSE LET r == in_rewards_node(edges, asset_guid(doc[found[i].asset])[1],
                  [DefaultKwargs EXCEPT !.parent = me,
                                        !.weight = Some(WeightOf(found[i].item))],
                  arena, depth + 1)
       IN IF r.kind # "tree" THEN r
          ELSE in_rewards_children(edges, found, i + 1, me,
                 [r.tree EXCEPT ![me].children = Append(@, Len(arena) + 1)],
                 depth)

\* in_rewards_tree(guid): the outcome and the cache attributes afterwards.
\* all_reward_items() is first reached from in_rewards(guid), after the root
\* node was constructed.
in_rewards_tree(guid, rp, ari) ==
  IF guid \notin DOMAIN aux
  THEN [out |-> Raise("KeyError", guid), rp |-> rp, ari |-> ari,
        ran_rp |-> 0, ran_ari |-> 0]
  ELSE LET got == all_reward_items(rp, ari) IN
       [out |-> in_rewards_node(got.v, guid, DefaultKwargs, <<>>, 1),
        rp |-> got.rp, ari |-> got.ari,
        ran_rp |-> got.ran_rp, ran_ari |-> got.ran_ari]

---------------------------------------------------------------------------
\* Documents of the model: assets 1 and 2 are plain items or reward pools,
\* asset 3 is a plain item; no asset carries GUID 4.  An Item has its
\* ItemLink and Weight texts, and `direct` tells whether it is a child of
\* Values/RewardPool/ItemsPool or lies elsewhere below Values/RewardPool.

Item(link, weight, direct) ==
  [ItemLink |-> link, Weight |-> weight, direct |-> direct]

ItemKinds ==
  { Item("2", NoText, TRUE), Item("2", "2", TRUE),
    Item("3", NoText, TRUE), Item("3", "-1", TRUE), Item("3", "0", TRUE),
    Item("1", NoText, TRUE), Item("1", "0", TRUE),
    Item("4", "2", TRUE),
    Item(NoText, "2", TRUE),
    Item("2", NoText, FALSE) }

\* the item lists of a pool with at most n Items
ItemLists(n) == UNION { [1..k -> ItemKinds] : k \in 0..n }

AssetNames == [g \in {"1", "2", "3"} |-> IF g = "1" THEN "one"
                                       ELSE IF g = "2" THEN "two" ELSE "three"]

PlainItem(guid) ==
  [GUID |-> guid, Name |-> AssetNames[guid], English |-> NoText,
   hasItem |-> TRUE, hasRewardPool |-> FALSE, Items |-> <<>>]

Pool(guid, items) ==
  [GUID |-> guid, Name |-> AssetNames[guid], English |-> NoText,
   hasItem |-> FALSE, hasRewardPool |-> TRUE, Items |-> items]

\* a plain item, or a reward pool of at most n Items
AssetChoices(guid, n) ==
  {PlainItem(guid)} \cup { Pool(guid, items) : items \in ItemLists(n) }

Min(a, b) == IF a < b THEN a ELSE b

\* the documents with a1 as first asset: at most MaxPoolItems Items in a
\* pool and MaxItems Items in all
Documents(a1) ==
  { <<a1, a2, PlainItem("3")>> :
      a2 \in AssetChoices("2", Min(MaxPoolItems, MaxItems - Len(a1.Items))) }

---------------------------------------------------------------------------
\* State machine: the index is built by from_xml, then callers query it.

NoCall == [op |-> "none", guid |-> 0]

NoScans == [reward_pools |-> 0, all_reward_items |-> 0]

\* the counts after ran_rp and ran_ari more runs of the generator bodies
Scanned(count, ran_rp, ran_ari) ==
  [reward_pools |-> Min(ScanCap, count.reward_pools + ran_rp),
   all_reward_items |-> Min(ScanCap, count.all_reward_items + ran_ari)]

NoThreads == <<>>

Init ==
  /\ \E a1 \in AssetChoices("1", Min(MaxPoolItems, MaxItems)) :
        doc \in Documents(a1)
  /\ index = asset_index(doc)
  /\ aux = from_xml_aux(doc, index)
  /\ cached_reward_pools = NoCache
  /\ cached_all_reward_items = NoCache
  /\ call = NoCall
  /\ result = NoResult
  /\ scans = NoScans
  /\ threads = NoThreads

\* variant: the forward builder consulting the cached catalog
RewardTreeThroughCatalog(guid) ==
  LET r == all_reward_items(cached_reward_pools, cached_all_reward_items)
  IN /\ call' = [op |-> "reward_tree", guid |-> guid]
     /\ result' = reward_tree(guid)
     /\ cached_reward_pools' = r.rp
     /\ cached_all_reward_items' = r.ari
     /\ scans' = Scanned(scans, r.ran_rp, r.ran_ari)
     /\ UNCHANGED <<doc, index, aux, threads>>

RewardTree(guid) ==
  /\ call' = [op |-> "reward_tree", guid |-> guid]
  /\ result' = reward_tree(guid)
  /\ UNCHANGED <<doc, index, aux, cached_reward_pools, cached_all_reward_items,
                 scans, threads>>

InRewardsTree(guid) ==
  \E r \in {in_rewards_tree(guid, cached_reward_pools,
                             cached_all_reward_items)} :
     /\ call' = [op |-> "in_rewards_tree", guid |-> guid]
     /\ result' = r.out
     /\ cached_reward_pools' = r.rp
     /\ cached_all_reward_items' = r.ari
     /\ scans' = Scanned(scans, r.ran_rp, r.ran_ari)
     /\ UNCHANGED <<doc, index, aux, threads>>

Next ==
  \/ \E guid \in QueryGuids : RewardTree(guid)
  \/ \E guid \in QueryGuids : InRewardsTree(guid)

Spec == Init /\ [][Next]_vars

---------------------------------------------------------------------------
\* The other operations of AssetsIndexed and of RewardPoolItem.

\* the class AssetsIndexed.EVERYTHING, used as guid of the synthetic root
EVERYTHING == 0

\* get_everything(): the returned root is at position 1, the children (one
\* per entry of aux, in dict order, built without parent) follow it
get_everything ==
  LET kids == [i \in 1..Len(index.order) |->
                 RewardPoolItem(index.order[i], aux[index.order[i]],
                                NoText, DefaultKwargs)]
      top == RewardPoolItem(EVERYTHING, "", NoText, DefaultKwargs)
  IN Return(<<[top EXCEPT !.children = [i \in 1..Len(kids) |-> i + 1]]>>
            \o kids)

ReturnList(list) == [kind |-> "list", guid |-> 0, tree |-> list]

\* list(in_rewards(guid)): the (asset, item) pairs yielded
in_rewards_pairs(edges, guid) ==
  LET found == in_rewards(edges, guid) IN
  [i \in 1..Len(found) |-> [asset |-> found[i].asset, item |-> found[i].item]]

RECURSIVE iter_all(_, _), iter_all_over(_, _, _)
\* n.iter_all() in the arena t: the positions yielded, in order
iter_all(t, n) == <<n>> \o iter_all_over(t, t[n].children, 1)
iter_all_over(t, kids, i) ==
  IF i > Len(kids) THEN <<>>
  ELSE iter_all(t, kids[i]) \o iter_all_over(t, kids, i + 1)

RECURSIVE iter_leafs_with_inner(_, _), iter_leafs_with_inner_over(_, _, _)
\* variant: the node yielded whether or not it has children
iter_leafs_with_inner(t, n) ==
  <<n>> \o iter_leafs_with_inner_over(t, t[n].children, 1)
iter_leafs_with_inner_over(t, kids, i) ==
  IF i > Len(kids) THEN <<>>
  ELSE iter_leafs_with_inner(t, kids[i])
       \o iter_leafs_with_inner_over(t, kids, i + 1)

RECURSIVE iter_leafs(_, _), iter_leafs_over(_, _, _)
\* n.iter_leafs() in the arena t
iter_leafs(t, n) ==
  IF t[n].children # <<>> THEN iter_leafs_over(t, t[n].children, 1)
  ELSE <<n>>
iter_leafs_over(t, kids, i) ==
  IF i > Len(kids) THEN <<>>
  ELSE iter_leafs(t, kids[i]) \o iter_leafs_over(t, kids, i + 1)

\* bool(node) is len(node) != 0, by RewardPoolItem.__len__
Truthy(t, n) == Len(t[n].children) # 0

RECURSIVE root(_, _)
\* n.root in the arena t, whose nodes are all alive (the caller holds the
\* returned node, which owns the others)
root(t, n) ==
  IF t[n].parent # 0 /\ Truthy(t, t[n].parent) THEN root(t, t[n].parent)
  ELSE n

GetEverything ==
  /\ call' = [op |-> "get_everything", guid |-> 0]
  /\ result' = get_everything
  /\ UNCHANGED <<doc, index, aux, cached_reward_pools, cached_all_reward_items,
                 scans, threads>>

RewardPools ==
  LET r == reward_pools(cached_reward_pools)
  IN /\ call' = [op |-> "reward_pools", guid |-> 0]
     /\ result' = ReturnList(r.v)
     /\ cached_reward_pools' = r.cache
     /\ scans' = Scanned(scans, r.ran, 0)
     /\ UNCHANGED <<doc, index, aux, cached_all_reward_items, threads>>

AllRewardItems ==
  LET r == all_reward_items(cached_reward_pools, cached_all_reward_items)
  IN /\ call' = [op |-> "all_reward_items", guid |-> 0]
     /\ result' = ReturnList(r.v)
     /\ cached_reward_pools' = r.rp
     /\ cached_all_reward_items' = r.ari
     /\ scans' = Scanned(scans, r.ran_rp, r.ran_ari)
     /\ UNCHANGED <<doc, index, aux, threads>>

\* in_rewards(guid), iterated to the end by the caller
InRewards(guid) ==
  LET r == all_reward_items(cached_reward_pools, cached_all_reward_items)
  IN /\ call' = [op |-> "in_rewards", guid |-> guid]
     /\ result' = ReturnList(in_rewards_pairs(r.v, guid))
     /\ cached_reward_pools' = r.rp
     /\ cached_all_reward_items' = r.ari
     /\ scans' = Scanned(scans, r.ran_rp, r.ran_ari)
     /\ UNCHANGED <<doc, index, aux, threads>>

\* Documents for the whole interface: the first asset a plain item or a pool
\* of at most MaxPoolItems Items, the second a plain item or a pool of at
\* most one Item.
SmallItemKinds ==
  { Item("2", NoText, TRUE), Item("3", "2", TRUE), Item("3", "0", TRUE),
    Item("1", NoText, TRUE) }

SmallItemLists(n) == UNION { [1..k -> SmallItemKinds] : k \in 0..n }

SmallAssetChoices(guid, n) ==
  {PlainItem(guid)} \cup { Pool(guid, items) : items \in SmallItemLists(n) }

SmallDocuments ==
  { <<a1, a2, PlainItem("3")>> :
      a1 \in SmallAssetChoices("1", MaxPoolItems),
      a2 \in SmallAssetChoices("2", 1) }

InitApi ==
  /\ doc \in SmallDocuments
  /\ index = asset_index(doc)
  /\ aux = from_xml_aux(doc, index)
  /\ cached_reward_pools = NoCache
  /\ cached_all_reward_items = NoCache
  /\ call = NoCall
  /\ result = NoResult
  /\ scans = NoScans
  /\ threads = NoThreads

NextApi ==
  \/ \E guid \in QueryGuids : RewardTree(guid)
  \/ \E guid \in QueryGuids : InRewardsTree(guid)
  \/ \E guid \in QueryGuids : InRewards(guid)
  \/ RewardPools
  \/ AllRewardItems
  \/ GetEverything

SpecApi == InitApi /\ [][NextApi]_vars

---------------------------------------------------------------------------
\* Concurrent callers.  Each thread makes one tree-build call against the
\* same AssetsIndexed.  doc, index and aux are only read, so a step that
\* reads nothing else is taken whole; the steps of cached_generator's inner()
\* are separate: the getattr of the cache attribute, and the evaluation of
\* list(func(self)) into a list of the thread's own followed by the setattr.

Threads == 1..NumThreads

Idle ==
  [pc |-> "idle", op |-> "none", guid |-> 0, pools |-> <<>>, v |-> <<>>,
   result |-> NoResult]

ConcDocuments ==
  { <<Pool("1", <<Item("2", NoText, TRUE), Item("3", "2", TRUE)>>),
      Pool("2", <<Item("3", "0", TRUE)>>), PlainItem("3")>>,
    <<Pool("1", <<Item("3", "2", TRUE)>>), PlainItem("2"), PlainItem("3")>>,
    <<PlainItem("1"), PlainItem("2"), PlainItem("3")>>,
    <<Pool("1", <<Item("2", NoText, TRUE)>>),
      Pool("2", <<Item("1", NoText, TRUE)>>), PlainItem("3")>> }

InitConc ==
  /\ doc \in ConcDocuments
  /\ index = asset_index(doc)
  /\ aux = from_xml_aux(doc, index)
  /\ cached_reward_pools = NoCache
  /\ cached_all_reward_items = NoCache
  /\ call = NoCall
  /\ result = NoResult
  /\ scans = NoScans
  /\ threads = [t \in Threads |-> Idle]

\* reward_tree(guid) reads doc, index and aux only
BeginRewardTree(t, guid) ==
  /\ threads[t].pc = "idle"
  /\ threads' = [threads EXCEPT ![t] =
       [@ EXCEPT !.pc = "done", !.op = "reward_tree", !.guid = guid,
                 !.result = reward_tree(guid)]]
  /\ UNCHANGED <<doc, index, aux, cached_reward_pools,
                 cached_all_reward_items, call, result, scans>>

\* _in_rewards_tree up to the first self.all_reward_items(): self.aux[guid]
\* raises KeyError before the catalog is asked for
BeginInRewardsTree(t, guid) ==
  /\ threads[t].pc = "idle"
  /\ threads' = [threads EXCEPT ![t] =
       IF guid \notin DOMAIN aux
       THEN [@ EXCEPT !.pc = "done", !.op = "in_rewards_tree", !.guid = guid,
                      !.result = Raise("KeyError", guid)]
       ELSE [@ EXCEPT !.pc = "all_reward_items", !.op = "in_rewards_tree",
                      !.guid = guid]]
  /\ UNCHANGED <<doc, index, aux, cached_reward_pools,
                 cached_all_reward_items, call, result, scans>>

\* variant: the list published empty before it is filled
AllRewardItemsGetPublishing(t) ==
  /\ threads[t].pc = "all_reward_items"
  /\ IF cached_all_reward_items.set
     THEN /\ threads' = [threads EXCEPT ![t] =
               [@ EXCEPT !.pc = "build", !.v = cached_all_reward_items.v]]
          /\ UNCHANGED cached_all_reward_items
     ELSE /\ threads' = [threads EXCEPT ![t] = [@ EXCEPT !.pc = "reward_pools"]]
          /\ cached_all_reward_items' = [set |-> TRUE, v |-> <<>>]
  /\ UNCHANGED <<doc, index, aux, cached_reward_pools, call, result, scans>>

\* inner() of all_reward_items: v := getattr(self, cache_attr, None)
AllRewardItemsGet(t) ==
  /\ threads[t].pc = "all_reward_items"
  /\ threads' = [threads EXCEPT ![t] =
       IF cached_all_reward_items.set
       THEN [@ EXCEPT !.pc = "build", !.v = cached_all_reward_items.v]
       ELSE [@ EXCEPT !.pc = "reward_pools"]]
  /\ UNCHANGED <<doc, index, aux, cached_reward_pools,
                 cached_all_reward_items, call, result, scans>>

\* inner() of reward_pools, called by the body of all_reward_items
RewardPoolsGet(t) ==
  /\ threads[t].pc = "reward_pools"
  /\ threads' = [threads EXCEPT ![t] =
       IF cached_reward_pools.set
       THEN [@ EXCEPT !.pc = "all_reward_items_scan",
                      !.pools = cached_reward_pools.v]
       ELSE [@ EXCEPT !.pc = "reward_pools_scan"]]
  /\ UNCHANGED <<doc, index, aux, cached_reward_pools,
                 cached_all_reward_items, call, result, scans>>

\* v = list(func(self)); setattr(self, cache_attr, v), for reward_pools
RewardPoolsSet(t) ==
  /\ threads[t].pc = "reward_pools_scan"
  /\ threads' = [threads EXCEPT ![t] =
       [@ EXCEPT !.pc = "all_reward_items_scan", !.pools = reward_pools_scan]]
  /\ cached_reward_pools' = [set |-> TRUE, v |-> reward_pools_scan]
  /\ scans' = Scanned(scans, 1, 0)
  /\ UNCHANGED <<doc, index, aux, cached_all_reward_items, call, result>>

\* the same for all_reward_items, over the pools this thread was given
AllRewardItemsSet(t) ==
  LET v == all_reward_items_scan(threads[t].pools) IN
  /\ threads[t].pc = "all_reward_items_scan"
  /\ threads' = [threads EXCEPT ![t] = [@ EXCEPT !.pc = "build", !.v = v]]
  /\ cached_all_reward_items' = [set |-> TRUE, v |-> v]
  /\ scans' = Scanned(scans, 0, 1)
  /\ UNCHANGED <<doc, index, aux, cached_reward_pools, call, result>>

\* the rest of _in_rewards_tree: the root's pairs come from the list v this
\* thread got, the calls below the root read the attribute again
in_rewards_tree_rest(guid, v, later) ==
  in_rewards_children(later, in_rewards(v, guid), 1, 1,
    <<RewardPoolItem(guid, aux[guid],
                     asset_english_text(doc[index.node[guid]]),
                     DefaultKwargs)>>, 1)

Build(t) ==
  /\ threads[t].pc = "build"
  /\ threads' = [threads EXCEPT ![t] =
       [@ EXCEPT !.pc = "done",
                 !.result = in_rewards_tree_rest(threads[t].guid, threads[t].v,
                                                 cached_all_reward_items.v)]]
  /\ UNCHANGED <<doc, index, aux, cached_reward_pools,
                 cached_all_reward_items, call, result, scans>>

NextConc ==
  \E t \in Threads :
    \/ \E guid \in QueryGuids : BeginRewardTree(t, guid)
    \/ \E guid \in QueryGuids : BeginInRewardsTree(t, guid)
    \/ AllRewardItemsGet(t)
    \/ RewardPoolsGet(t)
    \/ RewardPoolsSet(t)
    \/ AllRewardItemsSet(t)
    \/ Build(t)

SpecConc == InitConc /\ [][NextConc]_vars

---------------------------------------------------------------------------
\* Loading.  The documents given to from_xml: every Asset has or lacks a
\* GUID, an Item sub-tree and a RewardPool sub-tree, and GUIDs may repeat.
\* An Asset is named after its place in the document.

PlaceNames == <<"first", "second", "third", "fourth", "fifth", "sixth">>

AssetShapes ==
  [GUID : {NoText, "1", "2"}, hasItem : BOOLEAN, hasRewardPool : BOOLEAN]

Asset(shape, place) ==
  [GUID |-> shape.GUID, Name |-> PlaceNames[place], English |-> NoText,
   hasItem |-> shape.hasItem, hasRewardPool |-> shape.hasRewardPool,
   Items |-> <<>>]

AnyDocuments ==
  UNION { { [i \in 1..k |-> Asset(shapes[i], i)] :
              shapes \in [1..k -> AssetShapes] } : k \in 0..MaxAssets }

NoIndex == [order |-> <<>>, node |-> <<>>]

InitIndex ==
  /\ doc \in AnyDocuments
  /\ index = NoIndex
  /\ aux = <<>>
  /\ cached_reward_pools = NoCache
  /\ cached_all_reward_items = NoCache
  /\ call = NoCall
  /\ result = NoResult
  /\ scans = NoScans
  /\ threads = NoThreads

\* AssetsIndexed.from_xml(doc)
FromXml ==
  /\ call.op = "none"
  /\ call' = [op |-> "from_xml", guid |-> 0]
  /\ index' = asset_index(doc)
  /\ aux' = from_xml_aux(doc, asset_index(doc))
  /\ UNCHANGED <<doc, cached_reward_pools, cached_all_reward_items, result,
                 scans, threads>>

NextIndex == FromXml

SpecIndex == InitIndex /\ [][NextIndex]_vars

---------------------------------------------------------------------------
\* Properties.  They are stated over the document and the returned arena,
\* not through the operators that model the builders.

T == result.tree
Nodes == 1..Len(T)
Range(seq) == { seq[i] : i \in 1..Len(seq) }

ForwardTree == call.op = "reward_tree" /\ result.kind = "tree"
InverseTree == call.op = "in_rewards_tree" /\ result.kind = "tree"

HasParent(n) == \E p \in Nodes : n \in Range(T[p].children)
ParentOf(n) == CHOOSE p \in Nodes : n \in Range(T[p].children)

\* exact comparison, product and sum of rationals
RatMul(a, b) == <<a[1] * b[1], a[2] * b[2]>>
RatAdd(a, b) == <<a[1] * b[2] + b[1] * a[2], a[2] * b[2]>>
RatEq(a, b) == a[1] * b[2] = b[1] * a[2]

RECURSIVE RatSum(_, _)
\* exact sum of a sequence of rationals
RatSum(rs, i) ==
  IF i > Len(rs) THEN Rat(0, 1) ELSE RatAdd(rs[i], RatSum(rs, i + 1))

ChildWeights(p) ==
  [i \in 1..Len(T[p].children) |-> Rat(T[T[p].children[i]].weight[1], 1)]
ChildChancesFromParent(p) ==
  [i \in 1..Len(T[p].children) |-> T[T[p].children[i]].chance_from_parent]
ChildChancesFromRoot(p) ==
  [i \in 1..Len(T[p].children) |-> T[T[p].children[i]].chance_from_root]

ChildWeightSum(p) == RatSum(ChildWeights(p), 1)[1]

IsNumber(r) == r # None /\ r[2] # 0

\* C1: in a tree returned by reward_tree, every non-root node has
\* chance_from_parent = weight / (sum of the weights of its parent's children)
\* and chance_from_root = chance_from_parent * parent.chance_from_root,
\* as exact rationals.
C1_ChanceFormulas ==
  ForwardTree =>
    \A n \in Nodes : HasParent(n) =>
      LET p == ParentOf(n) IN
      /\ IsNumber(T[n].chance_from_parent)
      /\ IsNumber(T[n].chance_from_root)
      /\ ChildWeightSum(p) # 0
      /\ RatEq(T[n].chance_from_parent, Rat(T[n].weight[1], ChildWeightSum(p)))
      /\ RatEq(T[n].chance_from_root,
               RatMul(T[n].chance_from_parent, T[p].chance_from_root))

\* a grandchild whose parent is drawn with chance below 1 and which has a
\* sibling of a different weight
C1_Witness ==
  /\ ForwardTree
  /\ \E n \in Nodes : HasParent(n) /\ HasParent(ParentOf(n))
        /\ ~RatEq(T[ParentOf(n)].chance_from_root, Rat(1, 1))
  /\ \E n, m \in Nodes : HasParent(n) /\ HasParent(m)
        /\ ParentOf(n) = ParentOf(m) /\ T[n].weight # T[m].weight

\* C2: in a tree returned by reward_tree, the chance_from_parent of the
\* children of a node sum to 1 when the node has a child and every child has
\* weight > 0.
C2_ChildChancesSumToOne ==
  ForwardTree =>
    \A p \in Nodes :
      (/\ T[p].children # <<>>
       /\ \A c \in Range(T[p].children) : T[c].weight[1] > 0)
      => RatEq(RatSum(ChildChancesFromParent(p), 1), Rat(1, 1))

\* a node with two children of different positive weights
C2_Witness ==
  /\ ForwardTree
  /\ \E p \in Nodes :
       /\ Len(T[p].children) = 2
       /\ \A c \in Range(T[p].children) : T[c].weight[1] > 0
       /\ T[T[p].children[1]].weight # T[T[p].children[2]].weight

\* C3 as stated: at any depth, the chance_from_root of the children of a node
\* whose pool weight is > 0 sum to 1.
C3_Original ==
  ForwardTree =>
    \A p \in Nodes : ChildWeightSum(p) > 0 =>
      RatEq(RatSum(ChildChancesFromRoot(p), 1), Rat(1, 1))

\* C3 amended: the chance_from_root of the children of a node whose pool
\* weight is > 0 sum to the node's own chance_from_root, which is 1 at the
\* root.
C3_ChildRootChancesSumToParent ==
  ForwardTree =>
    /\ RatEq(T[1].chance_from_root, Rat(1, 1))
    /\ \A p \in Nodes : ChildWeightSum(p) > 0 =>
         RatEq(RatSum(ChildChancesFromRoot(p), 1),
               T[p].chance_from_root)

\* a node below the root, reached with chance below 1, that has children
C3_Witness ==
  /\ ForwardTree
  /\ \E p \in Nodes : /\ HasParent(p)
                      /\ ChildWeightSum(p) > 0
                      /\ ~RatEq(T[p].chance_from_root, Rat(1, 1))

---------------------------------------------------------------------------
\* The link relation of the document, read off the Item elements.

Indexed == DOMAIN index.node
AssetOf(g) == doc[index.node[g]]

\* an Item that declares a link and does not declare a weight of exactly 0
Eligible(item) == item.ItemLink # NoText /\ item.Weight # "0"
DeclaredWeight(item) == IF item.Weight = NoText THEN 1 ELSE Number(item.Weight)
LinkOf(item) == Number(item.ItemLink)

EligibleItems(g) ==
  IF AssetOf(g).hasRewardPool THEN SelectSeq(AssetOf(g).Items, Eligible)
  ELSE <<>>

RECURSIVE SumDeclared(_, _)
SumDeclared(items, i) ==
  IF i > Len(items) THEN 0
  ELSE DeclaredWeight(items[i]) + SumDeclared(items, i + 1)

EligibleWeightSum(g) == SumDeclared(EligibleItems(g), 1)

\* GUIDs linked from g by an eligible Item
ForwardLinks(g) ==
  IF g \in Indexed THEN { LinkOf(it) : it \in Range(EligibleItems(g)) } ELSE {}

RECURSIVE ForwardClosure(_)
ForwardClosure(S) ==
  LET S2 == S \cup UNION { ForwardLinks(g) : g \in S } IN
  IF S2 = S THEN S ELSE ForwardClosure(S2)

\* GUIDs reachable from g through eligible links, g included
ForwardReachable(g) == ForwardClosure({g})

\* unindexed GUIDs linked from a pool reachable from g
MissingFrom(g) == ForwardReachable(g) \ Indexed

\* C4 as stated: reward_tree never divides by a zero pool weight; an indexed
\* asset whose eligible weights sum to 0 is returned with zero children.
C4_NoZeroDivision ==
  call.op = "reward_tree" =>
    /\ result.kind # "ZeroDivisionError"
    /\ (call.guid \in Indexed /\ EligibleWeightSum(call.guid) = 0)
         => (result.kind = "tree" /\ T[1].children = <<>>)

\* C5 as stated: both builders fail for an unindexed GUID with the same error
\* kind, naming the GUID and returning no tree; reward_tree of an indexed
\* non-pool and in_rewards_tree of an indexed GUID no edge links to return a
\* single node without children.
C5_SameNotFound ==
  /\ (call.op # "none" /\ call.guid \notin Indexed) =>
        /\ result.kind \notin {"tree", "none"}
        /\ result.kind = reward_tree(call.guid).kind
        /\ result.guid = call.guid
        /\ result.tree = <<>>
  /\ (call.op = "reward_tree" /\ call.guid \in Indexed
        /\ ~AssetOf(call.guid).hasRewardPool) =>
        (result.kind = "tree" /\ Len(T) = 1 /\ T[1].children = <<>>)
  /\ (call.op = "in_rewards_tree" /\ call.guid \in Indexed
        /\ \A p \in Indexed : \A it \in Range(AssetOf(p).Items) :
              ~(it.direct /\ it.ItemLink # NoText /\ LinkOf(it) = call.guid)) =>
        (result.kind = "tree" /\ Len(T) = 1 /\ T[1].children = <<>>)

\* GUIDs reachable from g through one or more eligible links
ForwardReachablePlus(g) == ForwardClosure(ForwardLinks(g))

\* g reaches a pool that links back to itself, directly or not
ReachesForwardCycle(g) ==
  \E h \in ForwardReachable(g) : h \in ForwardReachablePlus(h)

\* C6 as stated, for a root that reaches no cycle (the recursion then visits
\* every reachable pool): when a pool reachable from the root links an
\* unindexed GUID through an eligible Item, reward_tree fails with the
\* not-found error for such a GUID and returns no tree.
C6_MissingLinkNotFound ==
  (call.op = "reward_tree" /\ call.guid \in Indexed
     /\ ~ReachesForwardCycle(call.guid)
     /\ MissingFrom(call.guid) # {}) =>
    /\ result.kind = "ValueError"
    /\ result.guid \in MissingFrom(call.guid)
    /\ result.tree = <<>>

\* The edges all_reward_items lists for the links to g: the pools in index
\* order, their ItemsPool/Item elements in document order.
LinksTo(p, g) ==
  LET Hit(it) == it.direct /\ it.ItemLink # NoText /\ LinkOf(it) = g
      sel == IF AssetOf(p).hasRewardPool
             THEN SelectSeq(AssetOf(p).Items, Hit) ELSE <<>>
  IN [i \in 1..Len(sel) |-> [pool |-> p, item |-> sel[i]]]

RECURSIVE EdgesToFrom(_, _)
EdgesToFrom(g, i) ==
  IF i > Len(index.order) THEN <<>>
  ELSE LinksTo(index.order[i], g) \o EdgesToFrom(g, i + 1)

EdgesTo(g) == EdgesToFrom(g, 1)

\* C7: in a tree returned by in_rewards_tree the children of a node with guid
\* G are, one to one and in order, the edges of all_reward_items that link G;
\* each child has the pool's GUID and the declared weight of the Item (1 when
\* none is declared, 0 when 0 is declared).
C7_InverseChildrenAreEdges ==
  InverseTree =>
    \A n \in Nodes :
      LET E == EdgesTo(T[n].guid) IN
      /\ Len(T[n].children) = Len(E)
      /\ \A i \in 1..Len(E) :
           /\ T[T[n].children[i]].guid = E[i].pool
           /\ T[T[n].children[i]].weight = Some(DeclaredWeight(E[i].item))

\* a pool linking the target twice, once with declared weight 0 and once
\* without a declared weight
C7_Witness ==
  /\ InverseTree
  /\ \E n \in Nodes : \E i, j \in 1..Len(T[n].children) :
       /\ i # j
       /\ T[T[n].children[i]].guid = T[T[n].children[j]].guid
       /\ T[T[n].children[i]].weight = Some(0)
       /\ T[T[n].children[j]].weight = Some(1)

\* C8: in a tree returned by reward_tree the children of a node are, in
\* document order, the Items of its pool that declare a link and do not
\* declare weight 0; each child has the linked GUID and the declared weight,
\* 1 when none is declared; an Item without a link is skipped.
C8_ForwardChildrenAreEligibleItems ==
  ForwardTree =>
    \A n \in Nodes :
      LET E == EligibleItems(T[n].guid) IN
      /\ Len(T[n].children) = Len(E)
      /\ \A i \in 1..Len(E) :
           /\ T[T[n].children[i]].guid = LinkOf(E[i])
           /\ T[T[n].children[i]].weight = Some(DeclaredWeight(E[i]))

\* a tree over a pool with an Item without link and a pool with a weight 0
\* Item, with a child whose weight was not declared
C8_Witness ==
  /\ ForwardTree
  /\ \E n \in Nodes : \E it \in Range(AssetOf(T[n].guid).Items) :
        it.ItemLink = NoText
  /\ \E n \in Nodes : \E it \in Range(AssetOf(T[n].guid).Items) :
        it.ItemLink # NoText /\ it.Weight = "0"
  /\ \E n \in Nodes : \E i \in 1..Len(T[n].children) :
        /\ EligibleItems(T[n].guid)[i].Weight = NoText
        /\ T[T[n].children[i]].weight = Some(1)

\* pools whose ItemsPool links g, whatever the weight
InverseLinks(g) == { p \in Indexed : LinksTo(p, g) # <<>> }

RECURSIVE InverseClosure(_)
InverseClosure(S) ==
  LET S2 == S \cup UNION { InverseLinks(g) : g \in S } IN
  IF S2 = S THEN S ELSE InverseClosure(S2)

InverseReachablePlus(g) == InverseClosure(InverseLinks(g))

\* no reachable pool has eligible weights summing to 0
NoZeroPoolFrom(g) ==
  \A h \in ForwardReachable(g) \cap Indexed :
    EligibleItems(h) # <<>> => EligibleWeightSum(h) # 0

AllLinks(g) ==
  IF g \in Indexed /\ AssetOf(g).hasRewardPool
  THEN { LinkOf(it) : it \in { x \in Range(AssetOf(g).Items) : x.ItemLink # NoText } }
  ELSE {}

RECURSIVE AllClosure(_)
AllClosure(S) ==
  LET S2 == S \cup UNION { AllLinks(g) : g \in S } IN
  IF S2 = S THEN S ELSE AllClosure(S2)

LinkGraphAcyclic == \A g \in Indexed : g \notin AllClosure(AllLinks(g))
AllTargetsIndexed == \A g \in Indexed : AllLinks(g) \subseteq Indexed

\* number of link paths from g: downward over eligible Items, upward over
\* the edges that link g (only evaluated on an acyclic link graph)
RECURSIVE ForwardPaths(_), ForwardPathsOver(_, _), InversePaths(_), InversePathsOver(_, _)
ForwardPaths(g) == 1 + ForwardPathsOver(EligibleItems(g), 1)
ForwardPathsOver(items, i) ==
  IF i > Len(items) THEN 0
  ELSE ForwardPaths(LinkOf(items[i])) + ForwardPathsOver(items, i + 1)
InversePaths(g) == 1 + InversePathsOver(EdgesTo(g), 1)
InversePathsOver(edges, i) ==
  IF i > Len(edges) THEN 0
  ELSE InversePaths(edges[i].pool) + InversePathsOver(edges, i + 1)

\* C10 as stated: on an acyclic link graph whose link targets are all
\* indexed, reward_tree and in_rewards_tree of an indexed GUID return a tree
\* with one node per link path from that GUID.
C10_AcyclicReturnsTree ==
  (call.op # "none" /\ call.guid \in Indexed
     /\ LinkGraphAcyclic /\ AllTargetsIndexed) =>
    /\ result.kind = "tree"
    /\ call.op = "reward_tree" => Len(T) = ForwardPaths(call.guid)
    /\ call.op = "in_rewards_tree" => Len(T) = InversePaths(call.guid)

---------------------------------------------------------------------------
\* Properties of the node operations and of the catalog.

AnyTree == result.kind = "tree"

Childless(n) == T[n].children = <<>>

\* C11: for every node n of a tree, n.iter_all() yields at least as many
\* nodes as n.iter_leafs(), as many exactly when n has no children, and
\* n.iter_leafs() yields exactly the childless nodes below n, each once.
C11_AllAtLeastLeafs ==
  AnyTree =>
    \A n \in Nodes :
      LET all == iter_all(T, n)
          leafs == iter_leafs(T, n)
      IN /\ Len(all) >= Len(leafs)
         /\ (Len(all) = Len(leafs)) <=> Childless(n)
         /\ Range(leafs) = { m \in Range(all) : Childless(m) }
         /\ Cardinality(Range(leafs)) = Len(leafs)

\* a tree of three levels, and elsewhere a single node
C11_Witness ==
  /\ AnyTree
  /\ \E n \in Nodes : ~Childless(n) /\ \E m \in Range(T[n].children) : ~Childless(m)
  /\ \E n \in Nodes : Childless(n)

\* C12: over any sequence of calls on one AssetsIndexed, the bodies of
\* reward_pools and all_reward_items each run at most once; a call returns
\* the materialised list, also when that list is empty, and a list once
\* materialised is never replaced.
C12_ScanAtMostOnce ==
  /\ [](/\ scans.reward_pools <= 1
        /\ scans.all_reward_items <= 1
        /\ cached_reward_pools.set <=> scans.reward_pools = 1
        /\ cached_all_reward_items.set <=> scans.all_reward_items = 1
        /\ call.op = "reward_pools" =>
             (cached_reward_pools.set /\ result.tree = cached_reward_pools.v)
        /\ call.op = "all_reward_items" =>
             (cached_all_reward_items.set
                /\ result.tree = cached_all_reward_items.v))
  /\ [][/\ cached_reward_pools.set =>
             (cached_reward_pools' = cached_reward_pools
                /\ scans'.reward_pools = scans.reward_pools)
        /\ cached_all_reward_items.set =>
             (cached_all_reward_items' = cached_all_reward_items
                /\ scans' = scans)]_vars

\* reward_pools() answered from an empty list that an earlier
\* all_reward_items() call had materialised
C12_Witness ==
  /\ call.op = "reward_pools"
  /\ cached_all_reward_items.set
  /\ result.tree = <<>>
  /\ scans = [reward_pools |-> 1, all_reward_items |-> 1]

\* C13 as stated: no call changes the document, the index, the name table or
\* any other attribute of the AssetsIndexed object.
C13_Original ==
  [][UNCHANGED <<doc, index, aux, cached_reward_pools,
                 cached_all_reward_items>>]_vars

\* C13 amended: no call changes the document, the index or the name table;
\* reward_tree and get_everything change no attribute at all; the other calls
\* change only the two cache attributes of cached_generator, each set once
\* to its materialised list and not changed afterwards.
C13_OnlyCachesChange ==
  [][/\ UNCHANGED <<doc, index, aux>>
     /\ call'.op \in {"reward_tree", "get_everything"} =>
          UNCHANGED <<cached_reward_pools, cached_all_reward_items>>
     /\ cached_reward_pools.set => UNCHANGED cached_reward_pools
     /\ cached_all_reward_items.set => UNCHANGED cached_all_reward_items
     /\ cached_reward_pools'.set =>
          cached_reward_pools'.v = reward_pools_scan
     /\ cached_all_reward_items'.set => cached_reward_pools'.set]_vars

\* in_rewards_tree has returned a tree and left both cache attributes set
C13_Witness ==
  /\ InverseTree
  /\ Len(T) > 1
  /\ cached_reward_pools.set
  /\ cached_all_reward_items.set
  /\ cached_all_reward_items.v # <<>>

\* the outcome of the call when no other call runs on the AssetsIndexed
Alone(op, guid) ==
  IF op = "reward_tree" THEN reward_tree(guid)
  ELSE in_rewards_tree(guid, NoCache, NoCache).out

\* C14: under every interleaving of concurrent reward_tree and
\* in_rewards_tree calls on one AssetsIndexed, every finished call has
\* returned what the same call returns when run alone, and a cache attribute
\* that is set holds the complete list.
C14_ConcurrentEqualsAlone ==
  /\ \A t \in DOMAIN threads :
       threads[t].pc = "done" =>
         threads[t].result = Alone(threads[t].op, threads[t].guid)
  /\ cached_reward_pools.set => cached_reward_pools.v = reward_pools_scan
  /\ cached_all_reward_items.set =>
       cached_all_reward_items.v = all_reward_items_scan(reward_pools_scan)

\* two in_rewards_tree calls have both run the cache-filling evaluation of
\* all_reward_items and returned trees with children
C14_Witness ==
  /\ scans.all_reward_items >= 2
  /\ \E t, u \in DOMAIN threads :
       /\ t # u
       /\ \A x \in {t, u} :
            /\ threads[x].pc = "done"
            /\ threads[x].op = "in_rewards_tree"
            /\ threads[x].result.kind = "tree"
            /\ Len(threads[x].result.tree) > 1

\* the Assets that have an Item or RewardPool sub-tree and carry a GUID
Keyed == { i \in 1..Len(doc) :
             (doc[i].hasItem \/ doc[i].hasRewardPool) /\ doc[i].GUID # NoText }
GuidAt(i) == Number(doc[i].GUID)
LastKeyed(g) ==
  CHOOSE i \in Keyed : GuidAt(i) = g /\ \A j \in Keyed : GuidAt(j) = g => j <= i

\* C15: after from_xml the keys of the index are the GUIDs of the assets
\* that have an Item or RewardPool sub-tree, each once and mapped to the last
\* such asset of the document; aux has the same keys and gives that asset's
\* name.
C15_IndexKeys ==
  call.op = "from_xml" =>
    /\ DOMAIN index.node = { GuidAt(i) : i \in Keyed }
    /\ \A g \in DOMAIN index.node : index.node[g] = LastKeyed(g)
    /\ Range(index.order) = DOMAIN index.node
    /\ Len(index.order) = Cardinality(DOMAIN index.node)
    /\ DOMAIN aux = DOMAIN index.node
    /\ \A g \in DOMAIN aux : aux[g] = doc[LastKeyed(g)].Name

\* a loaded document with a repeated GUID and an asset that has an Item
\* sub-tree but no GUID
C15_Witness ==
  /\ call.op = "from_xml"
  /\ \E i, j \in Keyed : i < j /\ GuidAt(i) = GuidAt(j)
  /\ \E i \in 1..Len(doc) : doc[i].GUID = NoText /\ doc[i].hasItem
  /\ Len(index.order) = 1

\* C16: in a tree returned by reward_tree, in_rewards_tree or get_everything
\* the root of every node is the returned node, every other node has a
\* parent whose children list contains it, and only the returned node has no
\* parent.
C16_RootIsReturnedNode ==
  (AnyTree /\ call.op \in {"reward_tree", "in_rewards_tree", "get_everything"})
    => /\ T[1].parent = 0
       /\ \A n \in Nodes :
            /\ root(T, n) = 1
            /\ n # 1 => /\ T[n].parent \in Nodes
                        /\ n \in Range(T[T[n].parent].children)

\* C17: a direct child G of reward_tree(P) makes P a direct child of
\* in_rewards_tree(G), and a direct child P of in_rewards_tree(G) whose
\* weight is not 0 makes G a direct child of reward_tree(P) with the same
\* weight, whenever the other builder returns a tree.
C17_BuildersAgree ==
  /\ ForwardTree =>
       \A c \in Range(T[1].children) :
         LET r == in_rewards_tree(T[c].guid, cached_reward_pools,
                                  cached_all_reward_items).out
         IN r.kind = "tree" =>
              \E k \in Range(r.tree[1].children) : r.tree[k].guid = call.guid
  /\ InverseTree =>
       \A c \in Range(T[1].children) :
         T[c].weight # Some(0) =>
           LET r == reward_tree(T[c].guid)
           IN r.kind = "tree" =>
                \E k \in Range(r.tree[1].children) :
                  /\ r.tree[k].guid = call.guid
                  /\ r.tree[k].weight = T[c].weight

====
